---- MODULE Spec2Model ----
(***************************************************************************)
(* Token cache and single-retry lead creation of AmiApiClient              *)
(* (src/server.js), driven by the two Express routes that use it           *)
(* (POST /leads and GET /token-status).                                    *)
(*                                                                         *)
(* The clock (Date.now()) and the answers of the two remote servers are    *)
(* the environment.                                                        *)
(***************************************************************************)
EXTENDS Integers, Naturals, Sequences, FiniteSets, TLC

(* ------------------------------ bounds --------------------------------- *)

\* How many times the clock may advance in one behaviour.
MaxAdvances == 1
\* Date.now() at the start of a behaviour, in milliseconds.
T0 == 1000000

(* ------------------------- program constants --------------------------- *)

\* server.js:74 "(response.data.expires_in - 60) * 1000; // 60s buffer"
BufferSeconds == 60
MsPerSecond == 1000

(* ----------------------------- value domains --------------------------- *)

\* concurrently outstanding route invocations
Procs == {1, 2}

\* JavaScript null / undefined, and a present value.
Null == [isNull |-> TRUE]
Val(v) == [isNull |-> FALSE, v |-> v]

\* access_token strings
Tokens == {"tokA", "tokB"}

\* expires_in values (seconds) the authorization server may report
ExpiresInValues == {60, 90, 3600}

\* clock steps (milliseconds): after one step a token reported with
\* expires_in = 3600 is still valid, one reported with 60 or 90 has expired
Deltas == {3000000}

\* JSON bodies the leads endpoint answers a successful POST with
LeadBodies == {"lead"}

\* axios' message for a failed request: with a response it names the status,
\* without one it is the transport's message
AxiosMessage(hasResponse, status) ==
    IF hasResponse THEN <<"Request failed with status code", status>>
    ELSE <<"Network Error">>

\* A failed axios call: error.response (absent for a transport error), the
\* fields of error.response.data the code reads ("" when the field is absent),
\* and error.message.
Failure(hasResponse, status, dataError, dataMessage) ==
    [hasResponse |-> hasResponse, status |-> status,
     dataError |-> dataError, dataMessage |-> dataMessage,
     message |-> AxiosMessage(hasResponse, status)]

\* failures of POST {authUrl}/oauth2/token
TokenFailures ==
    { Failure(TRUE, 400, "invalid_client", ""),
      Failure(TRUE, 500, "", ""),
      Failure(FALSE, 0, "", "") }

\* failures of POST {baseUrl}/crm/v1/leads
LeadFailures ==
    { Failure(TRUE, 401, "", ""),
      Failure(TRUE, 403, "", "Forbidden"),
      Failure(TRUE, 400, "", "Bad Request"),
      Failure(TRUE, 500, "", ""),
      Failure(FALSE, 0, "", "") }

(* ------------------------------- state --------------------------------- *)

\* One step of the model is one turn of the Node.js event loop: an incoming
\* request or an arriving HTTP response, with everything the code runs until
\* the invocation next waits for the network.

VARIABLES
    accessToken,     \* this.accessToken
    tokenExpiresAt,  \* this.tokenExpiresAt
    now,             \* Date.now()
    advances,        \* clock advances so far
    devMode,         \* process.env.NODE_ENV === "development"
    log,             \* what console.log has printed (set of entries)
    pc,              \* per invocation: where it is suspended
    kind,            \* per invocation: "createLead" or "tokenStatus"
    attempt,         \* per createLead invocation: 1, or 2 once in the catch block
    token,           \* per invocation: the local token / freshToken
    result,          \* per invocation: what it returned or threw
    hist,            \* per invocation: the calls it made, in order
    fetch,           \* per invocation: its token request in flight (when it
                     \* was sent, and whether another invocation has stored
                     \* a token since)
    authReply        \* the last 2xx answer of the token endpoint, when it
                     \* came and when it had been asked for

vars == <<accessToken, tokenExpiresAt, now, advances, devMode, log,
          pc, kind, attempt, token, result, hist, fetch, authReply>>

(* --------------------------- configuration ----------------------------- *)

\* apiConfig (server.js:166-171): the placeholders used when the environment
\* sets nothing
ClientId == "your_client_id"
ClientSecret == "your_client_secret"

\* Buffer.from(s).toString("base64"): an encoding of s that can be undone
Base64Encode(s) == [base64 |-> s]

\* `${this.clientId}:${this.clientSecret}` base64-encoded (server.js:58-60)
BasicAuth == Base64Encode(<<ClientId, ":", ClientSecret>>)

\* the Authorization headers of the two requests (server.js:67, 94, 120)
BasicHeader == [scheme |-> "Basic", credentials |-> BasicAuth]
BearerHeader(tok) == [scheme |-> "Bearer", credentials |-> tok]
NoHeader == [scheme |-> "none", credentials |-> [none |-> TRUE]]

TokenUrl == "/oauth2/token?grant_type=client_credentials"
LeadsUrl == "/crm/v1/leads"

(* ------------------------------ logging -------------------------------- *)

\* A printed line, by what it is and the Authorization header it shows; the
\* url, status and body it prints besides are left out.
LogEntry(k, url, auth, status) ==
    [kind |-> k, authorization |-> auth]

\* axios request interceptor (server.js:7-15): prints method, url, headers
\* and data of every request, in development only
RequestLog(url, auth) ==
    IF devMode THEN {LogEntry("Request:", url, auth, 0)} ELSE {}

\* axios response interceptor (server.js:17-25): prints status, headers
\* (those of the response) and data
ResponseLog(url, status) ==
    IF devMode THEN {LogEntry("Response:", url, NoHeader, status)} ELSE {}

\* axios error interceptor (server.js:26-33)
ErrorLog(url, f) ==
    IF devMode THEN {LogEntry("Error Response:", url, NoHeader, f.status)} ELSE {}

\* console.log("fetching new token") (server.js:57)
FetchingLog == {LogEntry("fetching new token", "", NoHeader, 0)}

\* console.log(`First attempt failed with status ...`) (server.js:106-108)
FirstAttemptLog(status) ==
    {LogEntry("First attempt failed with status", "", NoHeader, status)}

(* ------------------------- AmiApiClient, pure parts -------------------- *)

\* JavaScript truthiness of a number-or-null (null, undefined and 0 are falsy)
TruthyNumber(x) == ~x.isNull /\ x.v # 0

\* JavaScript truthiness of a token-or-null: the tokens of the model are
\* non-empty strings, so only null is falsy
TruthyToken(x) == ~x.isNull

\* The comparison the wrong way round.
CacheValidReversed(tok, exp, t) ==
    /\ TruthyToken(tok)
    /\ TruthyNumber(exp)
    /\ t > exp.v

\* A token still used at the very instant of its expiry.
CacheValidInclusive(tok, exp, t) ==
    /\ TruthyToken(tok)
    /\ TruthyNumber(exp)
    /\ t <= exp.v

\* server.js:49-53: this.accessToken && this.tokenExpiresAt &&
\*                  Date.now() < this.tokenExpiresAt
CacheValid(tok, exp, t) ==
    /\ TruthyToken(tok)
    /\ TruthyNumber(exp)
    /\ t < exp.v

\* An expiry with the buffer added instead of subtracted.
ExpiryOfBufferAdded(t, expiresIn) == t + (expiresIn + BufferSeconds) * MsPerSecond

\* The expiry without the safety buffer.
ExpiryOfUnbuffered(t, expiresIn) == t + expiresIn * MsPerSecond

\* server.js:74: Date.now() + (response.data.expires_in - 60) * 1000
ExpiryOf(t, expiresIn) == t + (expiresIn - BufferSeconds) * MsPerSecond

\* A token failure rethrown as a lead-creation error.
TokenErrorAsLeadError(f) ==
    [prefix |-> "Lead creation failed: ",
     detail |-> IF f.hasResponse /\ f.dataError # ""
                THEN <<f.dataError>> ELSE f.message,
     status |-> Null]

\* The error with axios' message only, the body's error field dropped.
TokenErrorMessageOnly(f) ==
    [prefix |-> "Client credentials token request failed: ",
     detail |-> f.message,
     status |-> Null]

\* server.js:77-81: the error getAccessToken throws
\*   error.response?.data?.error || error.message
TokenError(f) ==
    [prefix |-> "Client credentials token request failed: ",
     detail |-> IF f.hasResponse /\ f.dataError # ""
                THEN <<f.dataError>> ELSE f.message,
     status |-> Null]

\* A createLead that refreshes and retries after any failure.
IsAuthFailureAlways(f) == TRUE

\* A retry on server errors too.
IsAuthFailureOrServerError(f) ==
    f.hasResponse /\ (f.status = 401 \/ f.status = 403 \/ f.status = 500)

\* server.js:102,105: statusCode === 401 || statusCode === 403
IsAuthFailure(f) == f.hasResponse /\ (f.status = 401 \/ f.status = 403)

\* server.js:129-133: the error createLead throws when it does not retry
\*   error.response?.data?.message || error.message
\* A new Error carries a message only: no status field.
LeadError(f) ==
    [prefix |-> "Lead creation failed: ",
     detail |-> IF f.hasResponse /\ f.dataMessage # ""
                THEN <<f.dataMessage>> ELSE f.message,
     status |-> Null]

\* server.js:115-126: the retry is outside any try block, so the axios error
\* of the retry propagates as it is (message, and response.status if any)
RawError(f) ==
    [prefix |-> "",
     detail |-> f.message,
     status |-> IF f.hasResponse THEN Val(f.status) ELSE Null]

\* A createLead that keeps the cached token after a 401/403.
ClearedStateKept(ts) == ts

\* A clear that forgets the expiry.
ClearedTokenOnly(ts) ==
    [accessToken |-> Null, tokenExpiresAt |-> ts.tokenExpiresAt]

\* A clear that forgets the token.
ClearedExpiryOnly(ts) ==
    [accessToken |-> ts.accessToken, tokenExpiresAt |-> Null]

\* server.js:110-111: this.accessToken = null; this.tokenExpiresAt = null
ClearedState(ts) == [accessToken |-> Null, tokenExpiresAt |-> Null]

\* A createLead that drops the upstream body.
ResponseDataDropped(response) == ""

\* server.js:100, 126: return response.data
ResponseData(response) == response.data

(* --------------------------- call history ------------------------------ *)

\* One entry per call or request an invocation makes, in program order:
\* what it was (ev), the token it returned or carried (tok), and the
\* response that ended it (resp).
Ev(e, tok, resp) == [ev |-> e, tok |-> tok, resp |-> resp]

\* How the failure of a first lead request is entered in the history: a 401
\* or 403 as such, any other failure in full.
AuthRejected == [rejected |-> TRUE]
Seen(f) == IF f.hasResponse /\ f.status \in {401, 403} THEN AuthRejected ELSE Val(f)

\* How a getAccessToken call is entered: whether a stored expiry had been
\* reached when it was made.
CalledAt(ts, t) ==
    Ev("getAccessToken", Null,
       [expired |-> ~ts.tokenExpiresAt.isNull /\ t >= ts.tokenExpiresAt.v])

Returned(v) == [type |-> "return", value |-> Val(v), error |-> Null]
Thrown(e) == [type |-> "throw", value |-> Null, error |-> Val(e)]
NoResult == [type |-> "none", value |-> Null, error |-> Null]

TokenState == [accessToken |-> accessToken, tokenExpiresAt |-> tokenExpiresAt]

\* A token request sent at instant t (server.js:61), and the same request
\* once another invocation has stored a token while it is in flight.
Sent(t) == Val([sentAt |-> t, overtaken |-> FALSE])
Overtaken(r) == Val([sentAt |-> r.v.sentAt, overtaken |-> TRUE])

(* ------------------------------- Init ---------------------------------- *)

\* server.js:42-43: the constructor leaves both fields null
InitWith(dev) ==
    /\ accessToken = Null
    /\ tokenExpiresAt = Null
    /\ now = T0
    /\ advances = 0
    /\ devMode = dev
    /\ log = {}
    /\ pc = [p \in Procs |-> "idle"]
    /\ kind = [p \in Procs |-> "none"]
    /\ attempt = [p \in Procs |-> 0]
    /\ token = [p \in Procs |-> Null]
    /\ result = [p \in Procs |-> NoResult]
    /\ hist = [p \in Procs |-> <<>>]
    /\ fetch = [p \in Procs |-> Null]
    /\ authReply = Null

\* NODE_ENV is not "development": the interceptors are not installed
Init == InitWith(FALSE)

\* NODE_ENV=development (server.js:6)
InitDev == InitWith(TRUE)

(* ------------------------------ actions -------------------------------- *)

\* An invocation that has ended answers its HTTP request in the same turn
\* (server.js:191-200, 208-214): nothing else runs before Finish.
NoneDone == \A q \in Procs : pc[q] # "done"

\* A retry that sends token again instead of freshToken.
LeadRequestTokenStale(p, tok) == IF token[p].isNull THEN tok ELSE token[p]

\* server.js:87,94 and 114,120: the token a lead request carries is the one
\* the getAccessToken call before it returned (token, then freshToken)
LeadRequestToken(p, tok) == tok

\* What the caller of getAccessToken does once it has the token tok, up to
\* its next wait: createLead posts the lead (server.js:89-99, 115-125), the
\* /token-status route answers (server.js:208-211).  ts is the token state
\* at that moment, h and lg the invocation's history and the log so far.
WithToken(p, k, tok, ts, h, lg) ==
    /\ token' = [token EXCEPT ![p] = tok]
    /\ IF k = "createLead"
       THEN /\ pc' = [pc EXCEPT ![p] = "awaitLead"]
            /\ hist' = [hist EXCEPT ![p] =
                   h \o <<Ev("leadRequest", LeadRequestToken(p, tok), Null)>>]
            /\ log' = lg \cup RequestLog(LeadsUrl,
                                         BearerHeader(LeadRequestToken(p, tok).v))
            /\ UNCHANGED result
       ELSE /\ pc' = [pc EXCEPT ![p] = "done"]
            /\ hist' = [hist EXCEPT ![p] = h]
            /\ log' = lg
            /\ result' = [result EXCEPT ![p] =
                   Returned([hasAccessToken |-> TruthyToken(tok),
                             tokenExpiresAt |-> ts.tokenExpiresAt])]

\* A getAccessToken that shares a token request in flight: a call made while
\* another invocation waits for the token endpoint sends no request of its
\* own.
CallGetAccessTokenSingleFlight(p, k, ts, h, lg) ==
    /\ accessToken' = ts.accessToken
    /\ tokenExpiresAt' = ts.tokenExpiresAt
    /\ IF CacheValid(ts.accessToken, ts.tokenExpiresAt, now)
       THEN /\ WithToken(p, k, ts.accessToken, ts,
                         h \o <<CalledAt(ts, now),
                                Ev("cacheHit", ts.accessToken, Null)>>, lg)
            /\ UNCHANGED fetch
       ELSE /\ pc' = [pc EXCEPT ![p] = "awaitToken"]
            /\ IF \E q \in Procs \ {p} : pc[q] = "awaitToken"
               THEN /\ hist' = [hist EXCEPT ![p] = h \o <<CalledAt(ts, now)>>]
                    /\ log' = lg
                    /\ UNCHANGED fetch
               ELSE /\ hist' = [hist EXCEPT ![p] =
                           h \o <<CalledAt(ts, now),
                                  Ev("tokenRequest", Null, Null)>>]
                    /\ log' = lg \cup FetchingLog
                                 \cup RequestLog(TokenUrl, BasicHeader)
                    /\ fetch' = [fetch EXCEPT ![p] = Sent(now)]
            /\ UNCHANGED <<token, result>>

\* getAccessToken called by invocation p (server.js:47-71) on token state ts:
\* the cached token when it is still valid, else a token request is sent and
\* the invocation waits for the answer.
CallGetAccessToken(p, k, ts, h, lg) ==
    /\ accessToken' = ts.accessToken
    /\ tokenExpiresAt' = ts.tokenExpiresAt
    /\ IF CacheValid(ts.accessToken, ts.tokenExpiresAt, now)
       THEN /\ WithToken(p, k, ts.accessToken, ts,
                         h \o <<CalledAt(ts, now),
                                Ev("cacheHit", ts.accessToken, Null)>>, lg)
            /\ UNCHANGED fetch
       ELSE /\ pc' = [pc EXCEPT ![p] = "awaitToken"]
            /\ hist' = [hist EXCEPT ![p] =
                   h \o <<CalledAt(ts, now),
                          Ev("tokenRequest", Null, Null)>>]
            /\ log' = lg \cup FetchingLog \cup RequestLog(TokenUrl, BasicHeader)
            /\ fetch' = [fetch EXCEPT ![p] = Sent(now)]
            /\ UNCHANGED <<token, result>>

\* POST /leads arrives (server.js:176-190) and createLead starts (server.js:86-87)
StartCreateLead(p) ==
    /\ NoneDone
    /\ pc[p] = "idle"
    /\ kind' = [kind EXCEPT ![p] = "createLead"]
    /\ attempt' = [attempt EXCEPT ![p] = 1]
    /\ CallGetAccessToken(p, "createLead", TokenState, <<>>, log)
    /\ UNCHANGED <<now, advances, devMode, authReply>>

\* GET /token-status arrives (server.js:205-207)
StartTokenStatus(p) ==
    /\ NoneDone
    /\ pc[p] = "idle"
    /\ kind' = [kind EXCEPT ![p] = "tokenStatus"]
    /\ attempt' = [attempt EXCEPT ![p] = 1]
    /\ CallGetAccessToken(p, "tokenStatus", TokenState, <<>>, log)
    /\ UNCHANGED <<now, advances, devMode, authReply>>

\* A store that keeps an expiry already there.
StoredStateKeepsExpiry(response, t) ==
    [accessToken |-> Val(response.access_token),
     tokenExpiresAt |-> IF tokenExpiresAt.isNull
                        THEN Val(ExpiryOf(t, response.expires_in))
                        ELSE tokenExpiresAt]

\* server.js:72-74: the fields a successful token response is stored in
StoredState(response, t) ==
    [accessToken |-> Val(response.access_token),
     tokenExpiresAt |-> Val(ExpiryOf(t, response.expires_in))]

\* The token endpoint answers 2xx (server.js:72-75): the response is stored,
\* getAccessToken returns this.accessToken and the caller goes on.
TokenResponseOk(p) ==
    /\ NoneDone
    /\ pc[p] = "awaitToken"
    /\ \E tok \in Tokens, e \in ExpiresInValues :
         LET response == [access_token |-> tok, expires_in |-> e]
             ts == StoredState(response, now)
         IN /\ accessToken' = ts.accessToken
            /\ tokenExpiresAt' = ts.tokenExpiresAt
            /\ authReply' = Val([at |-> now, sentAt |-> fetch[p].v.sentAt,
                                 data |-> response])
            /\ WithToken(p, kind[p], ts.accessToken, ts,
                         hist[p] \o <<Ev("tokenOk", ts.accessToken, Null)>>,
                         log \cup ResponseLog(TokenUrl, 200))
    /\ fetch' = [q \in Procs |->
                    IF q = p THEN Null
                    ELSE IF pc[q] = "awaitToken" THEN Overtaken(fetch[q])
                    ELSE fetch[q]]
    /\ UNCHANGED <<now, advances, devMode, kind, attempt>>

\* The token request fails (server.js:76-82): getAccessToken throws; neither
\* createLead (the call is outside its try, or inside its catch) nor the
\* route's caller (server.js:196-200, 212-214) retries.
TokenResponseFail(p) ==
    /\ NoneDone
    /\ pc[p] = "awaitToken"
    /\ \E f \in TokenFailures :
         /\ result' = [result EXCEPT ![p] = Thrown(TokenError(f))]
         /\ hist' = [hist EXCEPT ![p] = @ \o <<Ev("tokenFail", Null, Val(f))>>]
         /\ log' = log \cup ErrorLog(TokenUrl, f)
    /\ pc' = [pc EXCEPT ![p] = "done"]
    /\ fetch' = [fetch EXCEPT ![p] = Null]
    /\ UNCHANGED <<accessToken, tokenExpiresAt, now, advances, devMode,
                   kind, attempt, token, authReply>>

\* The leads endpoint answers 2xx (server.js:100, 126)
LeadResponseOk(p) ==
    /\ NoneDone
    /\ pc[p] = "awaitLead"
    /\ \E body \in LeadBodies :
         LET response == [status |-> 200, data |-> body]
         IN /\ result' = [result EXCEPT ![p] = Returned(ResponseData(response))]
            /\ hist' = [hist EXCEPT ![p] = @ \o <<Ev("leadOk", Null, Val(response))>>]
    /\ log' = log \cup ResponseLog(LeadsUrl, 200)
    /\ pc' = [pc EXCEPT ![p] = "done"]
    /\ UNCHANGED <<accessToken, tokenExpiresAt, now, advances, devMode,
                   kind, attempt, token, fetch, authReply>>

\* The first lead request fails with 401 or 403 (server.js:101-125): the
\* token state is cleared and getAccessToken is called again.
LeadResponseRetry(p) ==
    /\ NoneDone
    /\ pc[p] = "awaitLead"
    /\ attempt[p] = 1
    /\ \E f \in LeadFailures :
         /\ IsAuthFailure(f)
         /\ CallGetAccessToken(p, kind[p], ClearedState(TokenState),
                hist[p] \o <<Ev("leadFail", Null, Seen(f)), Ev("clear", Null, Null)>>,
                log \cup ErrorLog(LeadsUrl, f) \cup FirstAttemptLog(f.status))
    /\ attempt' = [attempt EXCEPT ![p] = 2]
    /\ UNCHANGED <<now, advances, devMode, kind, authReply>>

\* The first lead request fails otherwise (server.js:129-133): createLead
\* throws "Lead creation failed: ...".
LeadResponseFail(p) ==
    /\ NoneDone
    /\ pc[p] = "awaitLead"
    /\ attempt[p] = 1
    /\ \E f \in LeadFailures :
         /\ ~IsAuthFailure(f)
         /\ result' = [result EXCEPT ![p] = Thrown(LeadError(f))]
         /\ hist' = [hist EXCEPT ![p] = @ \o <<Ev("leadFail", Null, Seen(f))>>]
         /\ log' = log \cup ErrorLog(LeadsUrl, f)
    /\ pc' = [pc EXCEPT ![p] = "done"]
    /\ UNCHANGED <<accessToken, tokenExpiresAt, now, advances, devMode,
                   kind, attempt, token, fetch, authReply>>

\* The retried lead request fails (server.js:115-126): the await is in the
\* catch block, outside any try, so the axios error leaves createLead as is.
RetryResponseFail(p) ==
    /\ NoneDone
    /\ pc[p] = "awaitLead"
    /\ attempt[p] = 2
    /\ \E f \in LeadFailures :
         /\ result' = [result EXCEPT ![p] = Thrown(RawError(f))]
         /\ hist' = [hist EXCEPT ![p] = @ \o <<Ev("leadFail", Null, Val(f))>>]
         /\ log' = log \cup ErrorLog(LeadsUrl, f)
    /\ pc' = [pc EXCEPT ![p] = "done"]
    /\ UNCHANGED <<accessToken, tokenExpiresAt, now, advances, devMode,
                   kind, attempt, token, fetch, authReply>>

\* The route has answered (server.js:191-200, 208-214); the slot is free for
\* the next request.
Finish(p) ==
    /\ pc[p] = "done"
    /\ pc' = [pc EXCEPT ![p] = "idle"]
    /\ kind' = [kind EXCEPT ![p] = "none"]
    /\ attempt' = [attempt EXCEPT ![p] = 0]
    /\ token' = [token EXCEPT ![p] = Null]
    /\ result' = [result EXCEPT ![p] = NoResult]
    /\ hist' = [hist EXCEPT ![p] = <<>>]
    /\ fetch' = [fetch EXCEPT ![p] = Null]
    /\ UNCHANGED <<accessToken, tokenExpiresAt, now, advances, devMode, log,
                   authReply>>

\* Date.now() moves on
Advance ==
    /\ NoneDone
    /\ advances < MaxAdvances
    /\ \E d \in Deltas : now' = now + d
    /\ advances' = advances + 1
    /\ UNCHANGED <<accessToken, tokenExpiresAt, devMode, log,
                   pc, kind, attempt, token, result, hist, fetch, authReply>>

Next ==
    \/ \E p \in Procs : Finish(p)
    \/ \E p \in Procs : StartCreateLead(p)
    \/ \E p \in Procs : StartTokenStatus(p)
    \/ \E p \in Procs : TokenResponseOk(p)
    \/ \E p \in Procs : TokenResponseFail(p)
    \/ \E p \in Procs : LeadResponseOk(p)
    \/ \E p \in Procs : LeadResponseRetry(p)
    \/ \E p \in Procs : LeadResponseFail(p)
    \/ \E p \in Procs : RetryResponseFail(p)
    \/ Advance

Spec == Init /\ [][Next]_vars

SpecDev == InitDev /\ [][Next]_vars

\* The event loop runs every handler that is ready: an invocation that has
\* ended answers its HTTP request (server.js:191-200, 208-214).  Nothing in
\* the code makes a response arrive: axios is called with no timeout
\* (server.js:61-71, 89-99, 115-125), so whether a waiting invocation is
\* ever resumed is up to the two servers and the network.
Fairness == \A p \in Procs : WF_vars(Finish(p))

SpecFair == Init /\ [][Next]_vars /\ Fairness

(* ======================= properties of the client ====================== *)

(* --------------------------- reading a history ------------------------- *)

Indices(h, e) == {i \in DOMAIN h : h[i].ev = e}
Count(h, e) == Cardinality(Indices(h, e))
After(h, i) == SubSeq(h, i + 1, Len(h))
Last(h) == h[Len(h)]

\* the events a step adds to the history of p
Grew(p) == Len(hist'[p]) > Len(hist[p])
NewEvents(p) == SubSeq(hist'[p], Len(hist[p]) + 1, Len(hist'[p]))

\* the first lead request of p was answered 401 or 403
Rejected(p) == \E i \in DOMAIN hist[p] :
                  hist[p][i].ev = "leadFail" /\ hist[p][i].resp = AuthRejected
RejectedAt(p) == CHOOSE i \in DOMAIN hist[p] :
                  hist[p][i].ev = "leadFail" /\ hist[p][i].resp = AuthRejected
\* what p did after that answer
Retry(p) == After(hist[p], RejectedAt(p))

\* the axios error of failure f, as it reaches a caller unwrapped
Unwrapped(f) ==
    [prefix |-> "", detail |-> f.message,
     status |-> IF f.hasResponse THEN Val(f.status) ELSE Null]

\* the retry of p posted the lead once, with the token of the refresh, and
\* p ended with what that request ended with
RetriedOnce(p) ==
    LET a == Retry(p)
    IN /\ Count(a, "leadRequest") = 1
       /\ \E j, k \in DOMAIN a :
             /\ a[j].ev = "tokenOk" /\ a[k].ev = "leadRequest"
             /\ k = j + 1 /\ a[k].tok = a[j].tok
             /\ k = Len(a) - 1
       /\ \/ /\ Last(a).ev = "leadOk"
             /\ result[p] = Returned(Last(a).resp.v.data)
          \/ /\ Last(a).ev = "leadFail"
             /\ result[p] = Thrown(Unwrapped(Last(a).resp.v))

(* C1 as claimed: after a 401/403 on the first lead request, a createLead
   invocation makes exactly one more token request and exactly one more lead
   request, the retry carries the refreshed token, a successful retry's body
   is returned and a failing retry's error is surfaced with no third lead
   request. *)
C1_RetryAlwaysPosts ==
    \A p \in Procs :
        (pc[p] = "done" /\ Rejected(p)) =>
            /\ Count(Retry(p), "tokenRequest") = 1
            /\ RetriedOnce(p)

(* C1 as amended: after a 401/403 on the first lead request, a createLead
   invocation makes exactly one more token request; when that request
   succeeds it makes exactly one more lead request, carrying the refreshed
   token, returns a successful retry's body and surfaces a failing retry's
   error (whatever its status) with no third lead request; when the token
   request fails it makes no further lead request and fails with the
   token-request error. *)
C1_RetryOnceIfRefreshed ==
    \A p \in Procs :
        (pc[p] = "done" /\ Rejected(p)) =>
            /\ Count(Retry(p), "tokenRequest") = 1
            /\ IF Count(Retry(p), "tokenOk") > 0
               THEN RetriedOnce(p)
               ELSE /\ Count(Retry(p), "leadRequest") = 0
                    /\ Last(Retry(p)).ev = "tokenFail"
                    /\ result[p].type = "throw"
                    /\ result[p].error.v.prefix =
                           "Client credentials token request failed: "

\* a retry that was itself answered 401 has ended
C1_Witness ==
    \E p \in Procs :
        /\ pc[p] = "done" /\ Rejected(p)
        /\ Last(hist[p]).ev = "leadFail"
        /\ Last(hist[p]).resp # AuthRejected
        /\ Last(hist[p]).resp.v.status = 401

(* C2: a getAccessToken call made while a token is cached and
   now < tokenExpiresAt returns the cached token, sends no token request and
   leaves accessToken and tokenExpiresAt as they were. *)
C2_CacheHitIsPure ==
    [][\A p \in Procs :
          ( /\ pc[p] = "idle" /\ pc'[p] # "idle"
            /\ ~accessToken.isNull /\ ~tokenExpiresAt.isNull
            /\ now < tokenExpiresAt.v )
          => /\ accessToken' = accessToken
             /\ tokenExpiresAt' = tokenExpiresAt
             /\ Count(hist'[p], "tokenRequest") = 0
             /\ hist'[p][2].ev = "cacheHit"
             /\ hist'[p][2].tok = accessToken
             /\ token'[p] = accessToken]_vars

\* a call was answered from the cache
C2_Witness ==
    \E p \in Procs : Len(hist[p]) >= 2 /\ hist[p][2].ev = "cacheHit"

(* C3: when a 2xx token response with expires_in = E is handled at instant
   t, tokenExpiresAt becomes t + (E - 60) * 1000 and accessToken becomes the
   response's access_token; that token is what getAccessToken returns. *)
C3_StoredExpiry ==
    [][\A p \in Procs :
          (pc[p] = "awaitToken" /\ Grew(p) /\ NewEvents(p)[1].ev = "tokenOk")
          => /\ ~authReply'.isNull
             /\ authReply'.v.at = now
             /\ tokenExpiresAt' =
                    Val(now + (authReply'.v.data.expires_in - 60) * 1000)
             /\ accessToken' = Val(authReply'.v.data.access_token)
             /\ NewEvents(p)[1].tok = accessToken']_vars

\* expires_in = 3600 was stored as an expiry 3540 s after the response
C3_Witness ==
    /\ ~authReply.isNull
    /\ authReply.v.data.expires_in = 3600
    /\ tokenExpiresAt = Val(authReply.v.at + 3540000)
    /\ accessToken = Val(authReply.v.data.access_token)

(* C4: a getAccessToken call made when the stored expiry has been reached
   (now >= tokenExpiresAt) sends exactly one token request: one at once, and
   no other before the call ends, whether the request succeeds or fails. *)
C4_ExpiredCallFetchesOnce ==
    \A p \in Procs : \A i \in DOMAIN hist[p] :
        (hist[p][i].ev = "getAccessToken" /\ hist[p][i].resp.expired) =>
            LET h == hist[p]
                later == {j \in DOMAIN h : j > i /\ h[j].ev = "getAccessToken"}
                ends == {j \in DOMAIN h : j > i /\ h[j].ev \in {"tokenOk", "tokenFail", "cacheHit"}}
                stop == IF later = {} THEN Len(h) + 1
                        ELSE CHOOSE j \in later : \A k \in later : j <= k
            IN /\ Cardinality({j \in DOMAIN h :
                      i < j /\ j < stop /\ h[j].ev = "tokenRequest"}) = 1
               /\ i + 1 <= Len(h) /\ h[i + 1].ev = "tokenRequest"
               /\ i + 2 <= Len(h) => h[i + 2].ev \in {"tokenOk", "tokenFail"}

\* a call made on an expired token has ended with a failed token request
C4_Witness ==
    \E p \in Procs :
        /\ Len(hist[p]) = 3
        /\ hist[p][1].resp.expired
        /\ hist[p][3].ev = "tokenFail"

(* C5: when the token request fails, getAccessToken throws
   "Client credentials token request failed: " followed by the upstream
   detail (the body's error field, else the transport's message), and
   neither sending the request nor handling its failure writes accessToken
   or tokenExpiresAt (a createLead retry sends it from the state it has just
   cleared). *)
C5_FailedFetchKeepsState ==
    [][\A p \in Procs :
          /\ (pc[p] = "awaitToken" /\ Grew(p) /\ NewEvents(p)[1].ev = "tokenFail")
             => LET f == NewEvents(p)[1].resp.v
                IN /\ accessToken' = accessToken
                   /\ tokenExpiresAt' = tokenExpiresAt
                   /\ Len(NewEvents(p)) = 1
                   /\ pc'[p] = "done"
                   /\ result'[p].type = "throw"
                   /\ result'[p].error.v.prefix =
                          "Client credentials token request failed: "
                   /\ result'[p].error.v.detail =
                          IF f.hasResponse /\ f.dataError # ""
                          THEN <<f.dataError>> ELSE f.message
          /\ (Grew(p) /\ Count(NewEvents(p), "tokenRequest") > 0)
             => IF Count(NewEvents(p), "clear") > 0
                THEN accessToken' = Null /\ tokenExpiresAt' = Null
                ELSE accessToken' = accessToken /\ tokenExpiresAt' = tokenExpiresAt
      ]_vars

\* the token endpoint answered 400 to the first fetch: the state is still empty
C5_Witness ==
    \E p \in Procs :
        /\ pc[p] = "done"
        /\ Last(hist[p]).ev = "tokenFail"
        /\ Last(hist[p]).resp.v.status = 400
        /\ accessToken = Null /\ tokenExpiresAt = Null
        /\ authReply = Null

\* p is handling the failure f of its first lead request, f not a 401/403
FirstFailureNotAuth(p) ==
    /\ pc[p] = "awaitLead"
    /\ Count(hist[p], "leadRequest") = 1
    /\ Grew(p)
    /\ NewEvents(p)[1].ev = "leadFail"
    /\ NewEvents(p)[1].resp # AuthRejected

\* no retry: nothing is sent, the token state stays, createLead has thrown
FailsAtOnce(p) ==
    /\ Len(NewEvents(p)) = 1
    /\ accessToken' = accessToken
    /\ tokenExpiresAt' = tokenExpiresAt
    /\ pc'[p] = "done"
    /\ result'[p].type = "throw"
    /\ result'[p].error.v.prefix = "Lead creation failed: "

\* the thrown error carries the failure's message: the body's message field,
\* else the transport's message
SurfacesMessage(err, f) ==
    err.detail = IF f.hasResponse /\ f.dataMessage # ""
                 THEN <<f.dataMessage>> ELSE f.message

\* the thrown error carries the failure's HTTP status, as a field or in its text
SurfacesStatus(err, f) ==
    f.hasResponse =>
        \/ err.status = Val(f.status)
        \/ Len(err.detail) = 2 /\ err.detail[2] = f.status

(* C6 as claimed: when the first lead request fails with a status other
   than 401/403 or with a transport error, createLead sends no token request
   and no further lead request, leaves the token state as it was, and fails
   at once with a request error that surfaces the failure's status and
   message. *)
C6_SurfacesStatusAndMessage ==
    [][\A p \in Procs :
          FirstFailureNotAuth(p) =>
              /\ FailsAtOnce(p)
              /\ SurfacesMessage(result'[p].error.v, NewEvents(p)[1].resp.v)
              /\ SurfacesStatus(result'[p].error.v, NewEvents(p)[1].resp.v)]_vars

(* C6 as amended: when the first lead request fails with a status other
   than 401/403 or with a transport error, createLead sends no token request
   and no further lead request, leaves the token state as it was, and fails
   at once with "Lead creation failed: " followed by the response body's
   message field when there is one, and by the transport's message
   otherwise; the HTTP status is not surfaced when the body has a message. *)
C6_NoRetryOnOtherFailures ==
    [][\A p \in Procs :
          FirstFailureNotAuth(p) =>
              /\ FailsAtOnce(p)
              /\ SurfacesMessage(result'[p].error.v, NewEvents(p)[1].resp.v)
              /\ result'[p].error.v.status = Null]_vars

\* a first lead request answered 400 has ended the invocation
C6_Witness ==
    \E p \in Procs :
        /\ pc[p] = "done"
        /\ Count(hist[p], "leadRequest") = 1
        /\ Last(hist[p]).ev = "leadFail"
        /\ Last(hist[p]).resp # AuthRejected
        /\ Last(hist[p]).resp.v.status = 400
        /\ result[p].type = "throw"

\* the lead response a step handles is a 401 or 403
HandlesAuthFailure(p) ==
    /\ pc[p] = "awaitLead"
    /\ Grew(p)
    /\ NewEvents(p)[1].ev = "leadFail"
    /\ IF NewEvents(p)[1].resp = AuthRejected THEN TRUE
       ELSE /\ NewEvents(p)[1].resp.v.hasResponse
            /\ NewEvents(p)[1].resp.v.status \in {401, 403}

(* C7 as claimed: whenever a lead request is answered 401 or 403, on the
   first attempt or on the retry, accessToken and tokenExpiresAt are both
   set to absent. *)
C7_EveryAuthFailureClears ==
    [][\A p \in Procs :
          HandlesAuthFailure(p) =>
              accessToken' = Null /\ tokenExpiresAt' = Null]_vars

(* C7 as amended: when the first lead request of a createLead invocation is
   answered 401 or 403, accessToken and tokenExpiresAt are both set to
   absent before the refresh is requested; a 401 or 403 answer to the retry
   leaves the token state as it is. *)
C7_FirstAuthFailureClears ==
    [][\A p \in Procs :
          HandlesAuthFailure(p) =>
              IF Count(hist[p], "leadRequest") = 1
              THEN /\ accessToken' = Null /\ tokenExpiresAt' = Null
                   /\ Len(NewEvents(p)) >= 4
                   /\ NewEvents(p)[2].ev = "clear"
                   /\ NewEvents(p)[4].ev = "tokenRequest"
              ELSE /\ accessToken' = accessToken
                   /\ tokenExpiresAt' = tokenExpiresAt]_vars

\* a retry was answered 403 and the refreshed token is still cached
C7_Witness ==
    \E p \in Procs :
        /\ pc[p] = "done" /\ Rejected(p)
        /\ Last(hist[p]).ev = "leadFail"
        /\ Last(hist[p]).resp # AuthRejected
        /\ Last(hist[p]).resp.v.status = 403
        /\ ~accessToken.isNull /\ ~tokenExpiresAt.isNull

(* C8: in every reachable state accessToken is present if and only if
   tokenExpiresAt is present. *)
C8_BothOrNeither == accessToken.isNull <=> tokenExpiresAt.isNull

\* a token is stored while one invocation waits for the leads endpoint and
\* the other for the token endpoint after its own 401/403
C8_Witness ==
    \E p, q \in Procs :
        /\ p # q
        /\ pc[p] = "awaitLead"
        /\ pc[q] = "awaitToken" /\ Rejected(q)
        /\ ~accessToken.isNull /\ ~tokenExpiresAt.isNull

(* C9: no printed line shows the client secret or the Basic Authorization
   header value built from clientId:clientSecret. *)
C9_CredentialsNeverLogged ==
    \A e \in log :
        ~ /\ e.authorization.scheme = "Basic"
          /\ e.authorization.credentials =
                 Base64Encode(<<ClientId, ":", ClientSecret>>)

(* C10: within one createLead invocation every lead request comes right
   after a getAccessToken call of that invocation has returned and carries
   the token it returned; on the retry path the clear comes before the
   retry's token request, which comes before the retried lead request. *)
C10_TokenBeforeLeadRequest ==
    \A p \in Procs :
        LET h == hist[p]
        IN /\ \A i \in Indices(h, "leadRequest") :
                 /\ i > 2
                 /\ h[i - 1].ev \in {"cacheHit", "tokenOk"}
                 /\ h[i - 1].tok = h[i].tok
                 /\ ~h[i].tok.isNull
                 /\ \E c \in Indices(h, "getAccessToken") :
                       /\ c < i - 1
                       /\ \A k \in DOMAIN h :
                             (c < k /\ k < i - 1) => h[k].ev = "tokenRequest"
           /\ Rejected(p) =>
                 /\ Count(h, "clear") = 1
                 /\ \A c \in Indices(h, "clear") :
                       /\ c = RejectedAt(p) + 1
                       /\ \A j \in Indices(h, "tokenRequest") :
                             j > RejectedAt(p) => c < j
                       /\ \A k \in Indices(h, "leadRequest") :
                             k > RejectedAt(p) =>
                                 \E j \in Indices(h, "tokenRequest") :
                                     c < j /\ j < k
           /\ ~Rejected(p) => Count(h, "leadRequest") <= 1

\* the retried lead request is out, after a refresh
C10_Witness ==
    \E p \in Procs :
        /\ pc[p] = "awaitLead"
        /\ Rejected(p)
        /\ Count(hist[p], "leadRequest") = 2
        /\ Last(hist[p]).tok # hist[p][RejectedAt(p) - 1].tok

(* C11: a createLead invocation sends at most two lead requests and at most
   two token requests, and a second lead request or a second token request
   is sent only after the answer 401 or 403 to its first lead request. *)
C11_AtMostTwoOfEach ==
    \A p \in Procs :
        kind[p] = "createLead" =>
            LET h == hist[p]
            IN /\ Count(h, "leadRequest") <= 2
               /\ Count(h, "tokenRequest") <= 2
               /\ \A e \in {"leadRequest", "tokenRequest"} :
                     \A i, j \in Indices(h, e) :
                         i < j =>
                             \E r \in Indices(h, "leadFail") :
                                 /\ r < j
                                 /\ h[r].resp = AuthRejected
                                 /\ h[r - 1].ev = "leadRequest"
                                 /\ Count(SubSeq(h, 1, r), "leadRequest") = 1

\* an invocation has sent two token requests and two lead requests
C11_Witness ==
    \E p \in Procs :
        /\ kind[p] = "createLead"
        /\ pc[p] = "done"
        /\ Count(hist[p], "tokenRequest") = 2
        /\ Count(hist[p], "leadRequest") = 2

(* C12: every getAccessToken call made while no valid token is cached sends
   a token request of its own and waits for the answer to that request,
   whether or not other calls are waiting for the token endpoint: calls
   started before any answer has arrived have sent one request each, and no
   caller waits on the request of another. *)
C12_EachCallSendsItsOwnRequest ==
    [][\A p \in Procs :
          /\ ( /\ Grew(p)
               /\ Count(NewEvents(p), "getAccessToken") > 0
               /\ ~ ( /\ ~accessToken'.isNull /\ ~tokenExpiresAt'.isNull
                      /\ now < tokenExpiresAt'.v ) )
             => /\ Count(NewEvents(p), "tokenRequest") = 1
                /\ Last(hist'[p]).ev = "tokenRequest"
                /\ pc'[p] = "awaitToken"
                /\ \A q \in Procs \ {p} : pc'[q] = pc[q] /\ hist'[q] = hist[q]
          /\ pc'[p] = "awaitToken" => Last(hist'[p]).ev = "tokenRequest"
      ]_vars

\* two calls started on an empty cache, no answer yet: two token requests
\* are in flight
C12_Witness ==
    /\ authReply = Null
    /\ \A p \in Procs :
          /\ pc[p] = "awaitToken"
          /\ Count(hist[p], "tokenRequest") = 1
          /\ Last(hist[p]).ev = "tokenRequest"

\* p handles a 2xx token response while the token request of another
\* invocation is in flight, or after another invocation has stored a token
\* while p's own request was in flight
HandlesConcurrentReply(p) ==
    /\ pc[p] = "awaitToken"
    /\ Grew(p)
    /\ NewEvents(p)[1].ev = "tokenOk"
    /\ \/ fetch[p].v.overtaken
       \/ \E q \in Procs \ {p} : pc[q] = "awaitToken"

(* C13: when two token requests are in flight together and both are
   answered 2xx, each answer, the last one included, replaces the token
   state as a whole (accessToken and the expiry computed from the same
   answer's expires_in), the caller whose request it answers gets that
   answer's token, and the token the other caller got from its own answer
   stays with that caller. *)
C13_LastWriterWins ==
    [][\A p \in Procs :
          HandlesConcurrentReply(p) =>
              LET data == authReply'.v.data
              IN /\ authReply'.v.at = now
                 /\ accessToken' = Val(data.access_token)
                 /\ tokenExpiresAt' = Val(now + (data.expires_in - 60) * 1000)
                 /\ NewEvents(p)[1].tok = Val(data.access_token)
                 /\ token'[p] = Val(data.access_token)
                 /\ \A q \in Procs \ {p} :
                       /\ token'[q] = token[q]
                       /\ hist'[q] = hist[q]]_vars

\* of two token requests in flight together one has been answered: its
\* caller holds the stored token, the other answer is still to come
C13_Witness ==
    \E p, q \in Procs :
        /\ p # q
        /\ pc[p] = "awaitLead"
        /\ Count(hist[p], "tokenOk") = 1
        /\ token[p] = accessToken
        /\ pc[q] = "awaitToken"
        /\ fetch[q].v.overtaken

(* C14: a createLead invocation that starts while a token is cached and
   now < tokenExpiresAt, and whose first lead request is answered 2xx,
   sends no token request and exactly one lead request (carrying the cached
   token), returns the answer's body as it came, and writes neither
   accessToken nor tokenExpiresAt in any of its steps. *)
C14_CachedSuccessIsFrameFree ==
    [][\A p \in Procs :
          /\ ( /\ pc[p] = "idle" /\ kind'[p] = "createLead"
               /\ ~accessToken.isNull /\ ~tokenExpiresAt.isNull
               /\ now < tokenExpiresAt.v )
             => /\ accessToken' = accessToken
                /\ tokenExpiresAt' = tokenExpiresAt
                /\ Len(hist'[p]) = 3
                /\ hist'[p][2].ev = "cacheHit"
                /\ hist'[p][3] = Ev("leadRequest", accessToken, Null)
                /\ pc'[p] = "awaitLead"
          /\ ( /\ pc[p] = "awaitLead"
               /\ Len(hist[p]) = 3 /\ hist[p][2].ev = "cacheHit"
               /\ Grew(p) /\ NewEvents(p)[1].ev = "leadOk" )
             => /\ accessToken' = accessToken
                /\ tokenExpiresAt' = tokenExpiresAt
                /\ Len(NewEvents(p)) = 1
                /\ Count(hist'[p], "tokenRequest") = 0
                /\ Count(hist'[p], "leadRequest") = 1
                /\ pc'[p] = "done"
                /\ result'[p].type = "return"
                /\ result'[p].value = Val(NewEvents(p)[1].resp.v.data)
      ]_vars

\* a createLead served from the cache has returned the body "lead"
C14_Witness ==
    \E p \in Procs :
        /\ kind[p] = "createLead" /\ pc[p] = "done"
        /\ Len(hist[p]) = 4
        /\ hist[p][2].ev = "cacheHit"
        /\ hist[p][4].ev = "leadOk"
        /\ result[p] = Returned("lead")

\* p handles a 2xx token response
HandlesTokenReply(p) ==
    pc[p] = "awaitToken" /\ Grew(p) /\ NewEvents(p)[1].ev = "tokenOk"

\* p calls getAccessToken at the instant the last 2xx token response was
\* handled, on the state that response left
CallsRightAfterStore(p) ==
    /\ pc[p] = "idle" /\ pc'[p] # "idle"
    /\ ~authReply.isNull
    /\ authReply.v.at = now
    /\ accessToken = Val(authReply.v.data.access_token)
    /\ tokenExpiresAt =
           Val(authReply.v.at + (authReply.v.data.expires_in - 60) * 1000)

(* C15 as claimed: right after a 2xx token response is stored, whatever its
   expires_in, a token is held with now < tokenExpiresAt, and a
   getAccessToken call at that instant is answered from the cache. *)
C15_EveryFetchLeavesValid ==
    [][\A p \in Procs :
          /\ HandlesTokenReply(p) =>
                /\ ~accessToken'.isNull /\ ~tokenExpiresAt'.isNull
                /\ now < tokenExpiresAt'.v
          /\ CallsRightAfterStore(p) => hist'[p][2].ev = "cacheHit"]_vars

(* C15 as amended: right after a 2xx token response is stored a token is
   held; now < tokenExpiresAt holds, and a getAccessToken call at that
   instant is answered from the cache, exactly when the response's
   expires_in is more than 60 seconds; with expires_in of 60 or less the
   stored expiry is not after now and a call at that instant sends a new
   token request. *)
C15_FetchLeavesValidIfLongLived ==
    [][\A p \in Procs :
          /\ HandlesTokenReply(p) =>
                /\ ~accessToken'.isNull /\ ~tokenExpiresAt'.isNull
                /\ (now < tokenExpiresAt'.v) <=>
                       (authReply'.v.data.expires_in > 60)
          /\ CallsRightAfterStore(p) =>
                hist'[p][2].ev = IF authReply.v.data.expires_in > 60
                                 THEN "cacheHit" ELSE "tokenRequest"]_vars

\* a response with expires_in = 60 has just been stored: the expiry is now,
\* and the other invocation, calling at once, has sent a token request
C15_Witness ==
    \E p \in Procs :
        /\ ~authReply.isNull
        /\ authReply.v.data.expires_in = 60
        /\ authReply.v.at = now
        /\ ~accessToken.isNull
        /\ tokenExpiresAt = Val(now)
        /\ pc[p] = "awaitToken"
        /\ Len(hist[p]) = 2
        /\ hist[p][1].resp.expired

\* The instants the authorization server can have issued the token of reply
\* r at: the earliest (when the request was sent) and the latest (when the
\* response was handled).
IssueInstants(r) == {r.sentAt, r.at}

(* C16: whenever getAccessToken returns the cached token, the instant of
   the call is before the token's server-side expiry, its issue instant
   plus the reported expires_in, whenever between the sending of the token
   request and the handling of its response the server issued it. *)
C16_CacheHitBeforeServerExpiry ==
    [][\A p \in Procs :
          (Grew(p) /\ Count(NewEvents(p), "cacheHit") > 0) =>
              \A issued \in IssueInstants(authReply.v) :
                  now < issued + authReply.v.data.expires_in * 1000]_vars

(* C17: every invocation that waits for the token endpoint or for the leads
   endpoint eventually ends (returns or throws), whether or not the server
   ever answers. *)
C17_EveryInvocationEnds ==
    \A p \in Procs :
        (pc[p] \in {"awaitToken", "awaitLead"}) ~> (pc[p] = "done")

\* a token request of the createLead invocation p fails in this step
TokenRequestFails(p) ==
    /\ kind[p] = "createLead"
    /\ pc[p] = "awaitToken"
    /\ Grew(p)
    /\ NewEvents(p)[1].ev = "tokenFail"

\* the invocation ends there with the token-request error: no lead request,
\* no second token request
EndsWithTokenError(p) ==
    /\ Len(NewEvents(p)) = 1
    /\ pc'[p] = "done"
    /\ Count(After(hist'[p], Len(hist[p])), "leadRequest") = 0
    /\ Count(After(hist'[p], Len(hist[p])), "tokenRequest") = 0
    /\ result'[p].type = "throw"
    /\ result'[p].error.v.prefix = "Client credentials token request failed: "
    /\ result'[p].error.v.prefix # "Lead creation failed: "

(* C18 as claimed: when a token request made inside a createLead invocation
   fails, the first one or the refresh after a 401/403, the invocation
   sends no lead request after it, does not send the token request again,
   and throws the token-request error, not a lead-creation error; after a
   failed refresh accessToken and tokenExpiresAt are both absent. *)
C18_FailedRefreshLeavesEmpty ==
    [][\A p \in Procs :
          TokenRequestFails(p) =>
              /\ EndsWithTokenError(p)
              /\ Rejected(p) => accessToken' = Null /\ tokenExpiresAt' = Null
      ]_vars

(* C18 as amended: when a token request made inside a createLead invocation
   fails, the first one or the refresh after a 401/403, the invocation
   sends no lead request after it, does not send the token request again,
   and throws the token-request error, not a lead-creation error; the
   failure writes neither accessToken nor tokenExpiresAt, so after a failed
   refresh both are absent unless another invocation has stored a token
   while the refresh was in flight. *)
C18_FailedRefreshWritesNothing ==
    [][\A p \in Procs :
          TokenRequestFails(p) =>
              /\ EndsWithTokenError(p)
              /\ accessToken' = accessToken
              /\ tokenExpiresAt' = tokenExpiresAt
              /\ (Rejected(p) /\ ~fetch[p].v.overtaken) =>
                     accessToken' = Null /\ tokenExpiresAt' = Null
      ]_vars

\* a refresh has failed and the token another invocation stored meanwhile
\* is cached
C18_Witness ==
    \E p \in Procs :
        /\ kind[p] = "createLead" /\ pc[p] = "done"
        /\ Rejected(p)
        /\ Last(hist[p]).ev = "tokenFail"
        /\ ~accessToken.isNull /\ ~tokenExpiresAt.isNull

(* C19: when the first lead request of a createLead invocation is answered
   401 or 403 while the cache holds a token other than the one that request
   carried (a token another invocation stored after the request was sent),
   the cached token and its expiry are kept. *)
C19_ClearSparesNewerToken ==
    [][\A p \in Procs :
          ( /\ HandlesAuthFailure(p)
            /\ Count(hist[p], "leadRequest") = 1
            /\ ~accessToken.isNull
            /\ accessToken # token[p] )
          => /\ accessToken' = accessToken
             /\ tokenExpiresAt' = tokenExpiresAt]_vars

====
